---- MODULE Spec2Model ----
(***************************************************************************)
(* Model of the blogicum blog application (blog/models.py, blog/views.py): *)
(* the entity store with its on_delete rules, and the request handlers of  *)
(* views.py with the visibility filter and the ownership checks they       *)
(* encode.  Every handler is one action; the response it produces is kept  *)
(* in the variable resp until it is sent, so that properties can speak     *)
(* about outcomes.  Requests are handled one at a time.                    *)
(***************************************************************************)
EXTENDS Integers, Sequences, FiniteSets, TLC

\* ---------------------------------------------------------------- bounds
MaxPosts == 2        \* posts ever created (primary keys 1..MaxPosts)
MaxComments == 1     \* comments ever created
MaxRows == 1         \* posts, and comments, ever created where one of each is enough
MaxTime == 1         \* the clock runs over 0..MaxTime

\* ------------------------------------------------------------- universes
Usernames == {"u1", "u2"}            \* registered accounts at start
Anonymous == "anonymous"             \* request.user of a logged-out client
Slugs == {"c1", "c2"}                \* Category.slug, unique
LocationNames == {"l1"}
NULL == "null"                       \* an empty nullable foreign key
Texts == {"a", "b"}                  \* Comment.text values; "" is a blank field
PostPks == 1..MaxPosts               \* primary keys a path can name
CommentPks == 1..MaxComments
Times == 0..MaxTime

VARIABLES
    users,        \* set of existing User rows (by username)
    categories,   \* existing Category rows: slug -> [is_published]
    locations,    \* set of existing Location rows
    posts,        \* existing Post rows: pk -> record
    comments,     \* existing Comment rows: pk -> record
    post_seq,     \* last primary key handed out for Post
    comment_seq,  \* last primary key handed out for Comment
    now,          \* the database clock, Now()
    resp          \* the response of the last request

store == <<users, categories, locations, posts, comments, post_seq, comment_seq>>
vars == <<users, categories, locations, posts, comments, post_seq, comment_seq,
          now, resp>>

\* ------------------------------------------------------------ responses
NoForm == [is_published |-> FALSE, category |-> NULL, location |-> NULL,
           pub_date |-> 0, text |-> ""]
NoLocation == [route |-> "", pk |-> 0, username |-> ""]

\* A response: the request it answers (view, requester, method, path
\* arguments) and its outcome (status, redirect target, the form the
\* handler bound and validated, the object list of a list view).
Response(view, user, method, pk, post_id, name, form, status, location, object_list) ==
    [view |-> view, user |-> user, method |-> method, pk |-> pk,
     post_id |-> post_id, name |-> name, form |-> form, status |-> status,
     location |-> location, object_list |-> object_list]

Idle == Response("", Anonymous, "", 0, 0, "", NoForm, 0, NoLocation, <<>>)

RedirectTo(route, pk, username) == [route |-> route, pk |-> pk, username |-> username]

\* ------------------------------------------------------------ the store
TypeOK ==
    /\ users \subseteq Usernames
    /\ DOMAIN categories \subseteq Slugs
    /\ \A c \in DOMAIN categories : categories[c].is_published \in BOOLEAN
    /\ locations \subseteq LocationNames
    /\ DOMAIN posts \subseteq 1..post_seq
    /\ DOMAIN comments \subseteq 1..comment_seq
    /\ post_seq \in 0..MaxPosts
    /\ comment_seq \in 0..MaxComments
    /\ now \in Times

\* Post row (models.py Post): author is a required reference, location and
\* category are nullable references, created_at is set once when the row is
\* added; title, text and image carry no policy and are left out.
PostRow(author, created_at, form) ==
    [author |-> author, created_at |-> created_at,
     is_published |-> form.is_published, category |-> form.category,
     location |-> form.location, pub_date |-> form.pub_date]

\* Comment row (models.py Comment).
CommentRow(author, post, text, pub_date) ==
    [author |-> author, post |-> post, text |-> text, pub_date |-> pub_date]

Restrict(f, S) == [x \in S |-> f[x]]

\* on_delete=CASCADE of Comment.post: deleting posts removes their comments.
CascadeComments(cs, gonePosts) ==
    Restrict(cs, {k \in DOMAIN cs : cs[k].post \notin gonePosts})

\* on_delete=SET_NULL of Post.category.
NullifyCategory(ps, slug) ==
    [p \in DOMAIN ps |->
        IF ps[p].category = slug THEN [ps[p] EXCEPT !.category = NULL] ELSE ps[p]]

\* on_delete=DO_NOTHING in place of SET_NULL.
NullifyLocation_DoNothing(ps, loc) == ps

\* on_delete=SET_NULL of Post.location.
NullifyLocation(ps, loc) ==
    [p \in DOMAIN ps |->
        IF ps[p].location = loc THEN [ps[p] EXCEPT !.location = NULL] ELSE ps[p]]

\* on_delete=CASCADE of Post.author.
CascadePosts(ps, user) ==
    Restrict(ps, {p \in DOMAIN ps : ps[p].author # user})

\* on_delete=CASCADE of Comment.author, and of Comment.post for the posts
\* that went with the user.
CascadeUserComments(cs, ps, user) ==
    Restrict(cs, {k \in DOMAIN cs :
                    /\ cs[k].author # user
                    /\ ps[cs[k].post].author # user})

\* ------------------------------------------------------------- the forms
\* PostForm (blog/forms.py): a ModelForm of Post without the author.  The
\* foreign keys are declared without blank=True, so a choice is required
\* and must name an existing row.
PostForms ==
    [is_published : BOOLEAN, category : Slugs, location : LocationNames,
     pub_date : Times, text : {""}]

PostFormValid(form) ==
    /\ form.category \in DOMAIN categories
    /\ form.location \in locations

\* CommentForm (blog/forms.py): the text of the comment, required.
CommentForms ==
    [is_published : {FALSE}, category : {NULL}, location : {NULL},
     pub_date : {0}, text : Texts \cup {""}]

CommentFormValid(form) == form.text # ""

\* post_list_request with pub_date__gte in place of pub_date__lte.
post_list_request_Gte(manager) ==
    {p \in manager :
        /\ posts[p].pub_date >= now
        /\ posts[p].is_published = TRUE
        /\ posts[p].category \in DOMAIN categories
        /\ categories[posts[p].category].is_published = TRUE}

\* --------------------------------------------------- the visibility filter
\* post_list_request(manager): the rows of manager with pub_date <= Now(),
\* is_published and category__is_published (an inner join: a post without
\* category has no category row to match).
post_list_request(manager) ==
    {p \in manager :
        /\ posts[p].pub_date <= now
        /\ posts[p].is_published = TRUE
        /\ posts[p].category \in DOMAIN categories
        /\ categories[posts[p].category].is_published = TRUE}

\* order_by('pub_date'): oldest first.
OrderByPubDateAsc(S) ==
    {s \in [1..Cardinality(S) -> S] :
        /\ \A i, j \in 1..Cardinality(S) : i # j => s[i] # s[j]
        /\ \A i, j \in 1..Cardinality(S) :
              i < j => posts[s[i]].pub_date <= posts[s[j]].pub_date}

\* order_by('-pub_date'): the orderings of a set of posts the database may
\* return, newest first; rows of equal pub_date come in any order.
OrderByPubDateDesc(S) ==
    {s \in [1..Cardinality(S) -> S] :
        /\ \A i, j \in 1..Cardinality(S) : i # j => s[i] # s[j]
        /\ \A i, j \in 1..Cardinality(S) :
              i < j => posts[s[i]].pub_date >= posts[s[j]].pub_date}

\* ---------------------------------------------------------- initial state
\* The accounts, categories and locations are created outside the views
\* (registration, admin site); the blog starts without posts and comments.
InitStore(accounts, flagChoices) ==
    /\ users = accounts
    /\ \E flags \in flagChoices :
          categories = [c \in Slugs |-> [is_published |-> flags[c]]]
    /\ locations = LocationNames
    /\ posts = <<>>
    /\ comments = <<>>
    /\ post_seq = 0
    /\ comment_seq = 0
    /\ now = 0
    /\ resp = Idle

\* The clients that can send a request: a logged-in account or nobody.
Clients == users \cup {Anonymous}

\* ------------------------------------------------------------ read views
\* IndexListView: queryset = post_list_request(), ordering = '-pub_date'.
IndexListView_get_queryset ==
    OrderByPubDateDesc(post_list_request(DOMAIN posts))

IndexListView ==
    /\ resp = Idle
    /\ \E user \in Clients, object_list \in IndexListView_get_queryset :
        /\ resp' = Response("index", user, "GET", 0, 0, "", NoForm,
                            200, NoLocation, object_list)
        /\ UNCHANGED <<store, now>>

\* CategoryPostsListView.dispatch: get_object_or_404(Category, slug=...,
\* is_published=True).
CategoryPostsListView_dispatch(slug) ==
    IF slug \in DOMAIN categories /\ categories[slug].is_published = TRUE
    THEN 200 ELSE 404

\* CategoryPostsListView.get_queryset: the filter over category_obj.post_set.
CategoryPostsListView_get_queryset(slug) ==
    OrderByPubDateDesc(
        post_list_request({p \in DOMAIN posts : posts[p].category = slug}))

CategoryPostsListView ==
    /\ resp = Idle
    /\ \E user \in Clients, slug \in Slugs :
        /\ IF CategoryPostsListView_dispatch(slug) = 404
           THEN resp' = Response("category_posts", user, "GET", 0, 0, slug, NoForm,
                                 404, NoLocation, <<>>)
           ELSE \E object_list \in CategoryPostsListView_get_queryset(slug) :
                    resp' = Response("category_posts", user, "GET", 0, 0, slug, NoForm,
                                     200, NoLocation, object_list)
        /\ UNCHANGED <<store, now>>

\* ProfileListView.get_queryset: every post of the profile's user, newest
\* first; the requester is not consulted.
ProfileListView_get_queryset(username, user) ==
    OrderByPubDateDesc({p \in DOMAIN posts : posts[p].author = username})

\* ProfileListView.dispatch: get_object_or_404(User, username=...).
ProfileListView ==
    /\ resp = Idle
    /\ \E user \in Clients, username \in Usernames :
        /\ IF username \notin users
           THEN resp' = Response("profile", user, "GET", 0, 0, username, NoForm,
                                 404, NoLocation, <<>>)
           ELSE \E object_list \in ProfileListView_get_queryset(username, user) :
                    resp' = Response("profile", user, "GET", 0, 0, username, NoForm,
                                     200, NoLocation, object_list)
        /\ UNCHANGED <<store, now>>

\* PostDetailView.dispatch without the exemption of the author.
PostDetailView_dispatch_NoAuthor(pk, user) ==
    IF pk \notin DOMAIN posts THEN 404
    ELSE IF posts[pk].is_published = FALSE THEN 404
    ELSE IF posts[pk].category = NULL THEN 500
    ELSE IF categories[posts[pk].category].is_published = FALSE THEN 404
    ELSE 200

\* PostDetailView.dispatch: 404 for a missing pk; for a requester other than
\* the author 404 when the post or its category is unpublished.  Reading
\* instance.category.is_published of a post without category raises
\* AttributeError, which the framework answers with status 500.
PostDetailView_dispatch(pk, user) ==
    IF pk \notin DOMAIN posts THEN 404
    ELSE IF posts[pk].author = user THEN 200
    ELSE IF posts[pk].is_published = FALSE THEN 404
    ELSE IF posts[pk].category = NULL THEN 500
    ELSE IF categories[posts[pk].category].is_published = FALSE THEN 404
    ELSE 200

PostDetailView ==
    /\ resp = Idle
    /\ \E user \in Clients, pk \in PostPks :
        /\ resp' = Response("post_detail", user, "GET", pk, 0, "", NoForm,
                            PostDetailView_dispatch(pk, user), NoLocation, <<>>)
        /\ UNCHANGED <<store, now>>

\* The clock of the database advances.
Tick ==
    /\ resp = Idle
    /\ now < MaxTime
    /\ now' = now + 1
    /\ UNCHANGED <<store, resp>>

\* The response is sent to the client; the next request can be handled.
Respond ==
    /\ resp # Idle
    /\ resp' = Idle
    /\ UNCHANGED <<store, now>>

\* ----------------------------------------------------------- write views
\* The views read the ids of the path as kwargs['pk'] (the post, or the
\* comment in the comment views) and kwargs['post_id'] (the post of a
\* comment path); pk and post_id below are those two.
\* What a client sends to a form view: GET asks for the page, POST submits.
PostRequests(forms) ==
    {[method |-> "GET", form |-> NoForm]} \cup
    {[method |-> "POST", form |-> f] : f \in forms}

CommentRequests(forms) ==
    {[method |-> "GET", form |-> NoForm]} \cup
    {[method |-> "POST", form |-> f] : f \in forms}

DeleteRequests ==
    {[method |-> "GET", form |-> NoForm], [method |-> "POST", form |-> NoForm]}

\* LoginRequiredMixin.dispatch: a client that is not authenticated is sent
\* to the login page.
LoginRequired(user) == IF user = Anonymous THEN "login" ELSE "allowed"

\* PostCreateView: LoginRequiredMixin, then CreateView; form_valid sets the
\* author to the requester; success url is the requester's profile.
PostCreateView(forms, cap) ==
    /\ resp = Idle
    /\ \E user \in Clients, request \in PostRequests(forms) :
        LET R(status, location, bound) ==
                Response("create_post", user, request.method, 0, 0, "",
                         bound, status, location, <<>>)
        IN  IF LoginRequired(user) = "login"
            THEN /\ resp' = R(302, RedirectTo("login", 0, ""), NoForm)
                 /\ UNCHANGED <<store, now>>
            ELSE IF request.method = "GET" \/ ~PostFormValid(request.form)
            THEN /\ resp' = R(200, NoLocation, request.form)
                 /\ UNCHANGED <<store, now>>
            ELSE /\ post_seq < cap
                 /\ post_seq' = post_seq + 1
                 /\ posts' = posts @@ (post_seq + 1 :> PostRow(user, now, request.form))
                 /\ resp' = R(302, RedirectTo("profile", 0, user), request.form)
                 /\ UNCHANGED <<users, categories, locations, comments,
                                comment_seq, now>>

\* PostUpdateView.dispatch: get_object_or_404(Post, pk), then the ownership
\* check, then super().dispatch (LoginRequiredMixin).
PostUpdateView_dispatch(pk, user) ==
    IF pk \notin DOMAIN posts THEN "not_found"
    ELSE IF posts[pk].author # user THEN "denied"
    ELSE LoginRequired(user)

PostUpdateView(forms) ==
    /\ resp = Idle
    /\ \E user \in Clients, pk \in PostPks, request \in PostRequests(forms) :
        LET R(status, location, bound) ==
                Response("edit_post", user, request.method, pk, 0, "",
                         bound, status, location, <<>>)
            decision == PostUpdateView_dispatch(pk, user)
        IN  IF decision = "not_found"
            THEN /\ resp' = R(404, NoLocation, NoForm)
                 /\ UNCHANGED <<store, now>>
            ELSE IF decision = "denied"
            THEN /\ resp' = R(302, RedirectTo("post_detail", pk, ""), NoForm)
                 /\ UNCHANGED <<store, now>>
            ELSE IF decision = "login"
            THEN /\ resp' = R(302, RedirectTo("login", 0, ""), NoForm)
                 /\ UNCHANGED <<store, now>>
            ELSE IF request.method = "GET" \/ ~PostFormValid(request.form)
            THEN /\ resp' = R(200, NoLocation, request.form)
                 /\ UNCHANGED <<store, now>>
            ELSE /\ posts' = [posts EXCEPT ![pk] = PostRow(posts[pk].author, posts[pk].created_at,
                                                         request.form)]
                 /\ resp' = R(302, RedirectTo("post_detail", pk, ""), request.form)
                 /\ UNCHANGED <<users, categories, locations, comments,
                                post_seq, comment_seq, now>>

\* PostDeleteView.dispatch with the login check of the mixin first.
PostDeleteView_dispatch_LoginFirst(pk, user) ==
    IF LoginRequired(user) = "login" THEN "login"
    ELSE IF pk \notin DOMAIN posts THEN "not_found"
    ELSE IF posts[pk].author # user THEN "denied"
    ELSE "allowed"

\* PostDeleteView.dispatch: as PostUpdateView.dispatch.
PostDeleteView_dispatch(pk, user) ==
    IF pk \notin DOMAIN posts THEN "not_found"
    ELSE IF posts[pk].author # user THEN "denied"
    ELSE LoginRequired(user)

\* PostDeleteView: GET shows the confirmation page with the post's form,
\* POST deletes the post (its comments go with it) and redirects to the
\* requester's profile.
PostDeleteView ==
    /\ resp = Idle
    /\ \E user \in Clients, pk \in PostPks, request \in DeleteRequests :
        LET R(status, location, bound) ==
                Response("delete_post", user, request.method, pk, 0, "",
                         bound, status, location, <<>>)
            decision == PostDeleteView_dispatch(pk, user)
        IN  IF decision = "not_found"
            THEN /\ resp' = R(404, NoLocation, NoForm)
                 /\ UNCHANGED <<store, now>>
            ELSE IF decision = "denied"
            THEN /\ resp' = R(302, RedirectTo("post_detail", pk, ""), NoForm)
                 /\ UNCHANGED <<store, now>>
            ELSE IF decision = "login"
            THEN /\ resp' = R(302, RedirectTo("login", 0, ""), NoForm)
                 /\ UNCHANGED <<store, now>>
            ELSE IF request.method = "GET"
            THEN /\ resp' = R(200, NoLocation, NoForm)
                 /\ UNCHANGED <<store, now>>
            ELSE /\ posts' = Restrict(posts, DOMAIN posts \ {pk})
                 /\ comments' = CascadeComments(comments, {pk})
                 /\ resp' = R(302, RedirectTo("profile", 0, user), request.form)
                 /\ UNCHANGED <<users, categories, locations,
                                post_seq, comment_seq, now>>

\* CommentCreateView.dispatch: get_object_or_404(Post, pk), then
\* LoginRequiredMixin; form_valid binds author, post and pub_date = Now();
\* success url is the detail view of the post of the path.
CommentCreateView(forms, cap) ==
    /\ resp = Idle
    /\ \E user \in Clients, pk \in PostPks, request \in CommentRequests(forms) :
        LET R(status, location, bound) ==
                Response("add_comment", user, request.method, pk, 0, "",
                         bound, status, location, <<>>)
        IN  IF pk \notin DOMAIN posts
            THEN /\ resp' = R(404, NoLocation, NoForm)
                 /\ UNCHANGED <<store, now>>
            ELSE IF LoginRequired(user) = "login"
            THEN /\ resp' = R(302, RedirectTo("login", 0, ""), NoForm)
                 /\ UNCHANGED <<store, now>>
            ELSE IF request.method = "GET" \/ ~CommentFormValid(request.form)
            THEN /\ resp' = R(200, NoLocation, request.form)
                 /\ UNCHANGED <<store, now>>
            ELSE /\ comment_seq < cap
                 /\ comment_seq' = comment_seq + 1
                 /\ comments' = comments @@
                        (comment_seq + 1 :> CommentRow(user, pk, request.form.text, now))
                 /\ resp' = R(302, RedirectTo("post_detail", pk, ""), request.form)
                 /\ UNCHANGED <<users, categories, locations, posts, post_seq, now>>

\* CommentUpdateView.dispatch: get_object_or_404(Comment, pk), then the
\* ownership check, then super().dispatch (LoginRequiredMixin).
CommentUpdateView_dispatch(pk, user) ==
    IF pk \notin DOMAIN comments THEN "not_found"
    ELSE IF comments[pk].author # user THEN "denied"
    ELSE LoginRequired(user)

\* The redirect of CommentUpdateView, when denied and from get_success_url:
\* redirect('blog:post_detail', pk=kwargs['post_id']).
CommentUpdateView_redirect(pk, post_id) == RedirectTo("post_detail", post_id, "")

CommentUpdateView(forms) ==
    /\ resp = Idle
    /\ \E user \in Clients, pk \in CommentPks, post_id \in PostPks,
       request \in CommentRequests(forms) :
        LET R(status, location, bound) ==
                Response("edit_comment", user, request.method, pk, post_id, "",
                         bound, status, location, <<>>)
            decision == CommentUpdateView_dispatch(pk, user)
        IN  IF decision = "not_found"
            THEN /\ resp' = R(404, NoLocation, NoForm)
                 /\ UNCHANGED <<store, now>>
            ELSE IF decision = "denied"
            THEN /\ resp' = R(302, CommentUpdateView_redirect(pk, post_id), NoForm)
                 /\ UNCHANGED <<store, now>>
            ELSE IF decision = "login"
            THEN /\ resp' = R(302, RedirectTo("login", 0, ""), NoForm)
                 /\ UNCHANGED <<store, now>>
            ELSE IF request.method = "GET" \/ ~CommentFormValid(request.form)
            THEN /\ resp' = R(200, NoLocation, request.form)
                 /\ UNCHANGED <<store, now>>
            ELSE /\ comments' = [comments EXCEPT ![pk].text = request.form.text]
                 /\ resp' = R(302, CommentUpdateView_redirect(pk, post_id), request.form)
                 /\ UNCHANGED <<users, categories, locations, posts,
                                post_seq, comment_seq, now>>

\* CommentDeleteView.dispatch: as CommentUpdateView.dispatch.
CommentDeleteView_dispatch(pk, user) ==
    IF pk \notin DOMAIN comments THEN "not_found"
    ELSE IF comments[pk].author # user THEN "denied"
    ELSE LoginRequired(user)

\* The redirect of CommentDeleteView, when denied and from get_success_url.
CommentDeleteView_redirect(pk, post_id) == RedirectTo("post_detail", post_id, "")

CommentDeleteView ==
    /\ resp = Idle
    /\ \E user \in Clients, pk \in CommentPks, post_id \in PostPks,
       request \in DeleteRequests :
        LET R(status, location, bound) ==
                Response("delete_comment", user, request.method, pk, post_id, "",
                         bound, status, location, <<>>)
            decision == CommentDeleteView_dispatch(pk, user)
        IN  IF decision = "not_found"
            THEN /\ resp' = R(404, NoLocation, NoForm)
                 /\ UNCHANGED <<store, now>>
            ELSE IF decision = "denied"
            THEN /\ resp' = R(302, CommentDeleteView_redirect(pk, post_id), NoForm)
                 /\ UNCHANGED <<store, now>>
            ELSE IF decision = "login"
            THEN /\ resp' = R(302, RedirectTo("login", 0, ""), NoForm)
                 /\ UNCHANGED <<store, now>>
            ELSE IF request.method = "GET"
            THEN /\ resp' = R(200, NoLocation, NoForm)
                 /\ UNCHANGED <<store, now>>
            ELSE /\ comments' = Restrict(comments, DOMAIN comments \ {pk})
                 /\ resp' = R(302, CommentDeleteView_redirect(pk, post_id), request.form)
                 /\ UNCHANGED <<users, categories, locations, posts,
                                post_seq, comment_seq, now>>

\* ------------------------------------------- deletions outside the views
\* Rows of User, Category and Location are deleted through the ORM (admin
\* site); the on_delete rules of models.py decide what happens to the rows
\* that refer to them.  resp records which row went.
DeleteUser ==
    /\ resp = Idle
    /\ \E username \in users :
        /\ users' = users \ {username}
        /\ posts' = CascadePosts(posts, username)
        /\ comments' = CascadeUserComments(comments, posts, username)
        /\ resp' = Response("delete_user", Anonymous, "", 0, 0, username, NoForm,
                            0, NoLocation, <<>>)
        /\ UNCHANGED <<categories, locations, post_seq, comment_seq, now>>

DeleteCategory ==
    /\ resp = Idle
    /\ \E slug \in DOMAIN categories :
        /\ categories' = Restrict(categories, DOMAIN categories \ {slug})
        /\ posts' = NullifyCategory(posts, slug)
        /\ resp' = Response("delete_category", Anonymous, "", 0, 0, slug, NoForm,
                            0, NoLocation, <<>>)
        /\ UNCHANGED <<users, locations, comments, post_seq, comment_seq, now>>

DeleteLocation ==
    /\ resp = Idle
    /\ \E loc \in locations :
        /\ locations' = locations \ {loc}
        /\ posts' = NullifyLocation(posts, loc)
        /\ resp' = Response("delete_location", Anonymous, "", 0, 0, loc, NoForm,
                            0, NoLocation, <<>>)
        /\ UNCHANGED <<users, categories, comments, post_seq, comment_seq, now>>

\* ------------------------------------------------------- specifications
\* The posts ever created are capped per specification, and so are the
\* comments; PostPks and CommentPks are the primary keys a path can name.
AnyFlags == [Slugs -> BOOLEAN]
AllPublished == {[c \in Slugs |-> TRUE]}

\* Forms submitted where scheduling and categories are not the subject.
WriteForms == {f \in PostForms : f.pub_date = 0 /\ f.category = "c1"}
DeleteForms == {f \in PostForms : f.pub_date = 0 /\ f.is_published = TRUE}
DeleteCommentForms == {f \in CommentForms : f.text \in {"a", ""}}

\* Detail: posts are created and scheduled, categories go, time passes, and
\* the detail view is requested.
InitDetail == InitStore(Usernames, AnyFlags)

NextDetail ==
    \/ PostCreateView(PostForms, MaxRows)
    \/ DeleteCategory
    \/ Tick
    \/ PostDetailView
    \/ Respond

SpecDetail == InitDetail /\ [][NextDetail]_vars

\* Feeds: one account writes, and the home and category feeds are read.
InitFeed == InitStore({"u1"}, AnyFlags)

NextFeed ==
    \/ PostCreateView(PostForms, MaxPosts)
    \/ DeleteCategory
    \/ Tick
    \/ IndexListView
    \/ CategoryPostsListView
    \/ Respond

SpecFeed == InitFeed /\ [][NextFeed]_vars

\* Profiles: two accounts write, and all three list views are read.
InitProfile == InitStore(Usernames, AnyFlags)

NextProfile ==
    \/ PostCreateView(PostForms, MaxPosts)
    \/ DeleteCategory
    \/ Tick
    \/ IndexListView
    \/ CategoryPostsListView
    \/ ProfileListView
    \/ Respond

SpecProfile == InitProfile /\ [][NextProfile]_vars

\* Writing: posts and comments are created, edited and deleted through the
\* views.
InitWrite == InitStore(Usernames, AllPublished)

NextWrite ==
    \/ PostCreateView(WriteForms, MaxPosts)
    \/ CommentCreateView(CommentForms, MaxComments)
    \/ PostUpdateView(WriteForms)
    \/ PostDeleteView
    \/ CommentUpdateView(CommentForms)
    \/ CommentDeleteView
    \/ Respond

SpecWrite == InitWrite /\ [][NextWrite]_vars

\* Deleting: rows of every kind are created and deleted.
InitDelete == InitStore(Usernames, AllPublished)

NextDelete ==
    \/ PostCreateView(DeleteForms, MaxRows)
    \/ CommentCreateView(DeleteCommentForms, MaxRows)
    \/ PostDeleteView
    \/ CommentDeleteView
    \/ DeleteUser
    \/ DeleteCategory
    \/ DeleteLocation
    \/ Respond

SpecDelete == InitDelete /\ [][NextDelete]_vars

\* The whole application.
Init == InitStore(Usernames, AnyFlags)

Next ==
    \/ PostCreateView(PostForms, MaxPosts)
    \/ CommentCreateView(CommentForms, MaxComments)
    \/ PostUpdateView(PostForms)
    \/ PostDeleteView
    \/ CommentUpdateView(CommentForms)
    \/ CommentDeleteView
    \/ IndexListView
    \/ CategoryPostsListView
    \/ ProfileListView
    \/ PostDetailView
    \/ DeleteUser
    \/ DeleteCategory
    \/ DeleteLocation
    \/ Tick
    \/ Respond

Spec == Init /\ [][Next]_vars

\* ============================================================ properties
Range(seq) == {seq[i] : i \in DOMAIN seq}

\* The visibility rule for a viewer who is not the author: the post is
\* published, has a category, the category is published, and the publication
\* date has passed.
PublicNow(p) ==
    /\ posts[p].is_published
    /\ posts[p].category # NULL
    /\ categories[posts[p].category].is_published
    /\ posts[p].pub_date <= now

\* A list of posts without repetition, newest first.
NewestFirst(seq) ==
    /\ \A i, j \in DOMAIN seq : i # j => seq[i] # seq[j]
    /\ \A i, j \in DOMAIN seq : i < j => posts[seq[i]].pub_date >= posts[seq[j]].pub_date

\* A request has just been handled by one of the given views.
Answered(views) == resp.view \in views

\* C1: for a viewer who is not the author, the detail view of an existing
\* post answers 200 exactly when the post is published, has a published
\* category and its pub_date has passed, and answers 404 otherwise.
C1_DetailForOthers ==
    (/\ Answered({"post_detail"})
     /\ resp.pk \in DOMAIN posts
     /\ posts[resp.pk].author # resp.user)
    => IF PublicNow(resp.pk) THEN resp.status = 200 ELSE resp.status = 404

\* C2: the detail view of a post requested by the post's author answers 200
\* whatever the post's is_published, category and pub_date.
C2_DetailForAuthor ==
    (/\ Answered({"post_detail"})
     /\ resp.pk \in DOMAIN posts
     /\ posts[resp.pk].author = resp.user)
    => resp.status = 200

\* C2 witness: an author got their own unpublished, uncategorised, future post.
C2_Witness ==
    /\ Answered({"post_detail"})
    /\ resp.pk \in DOMAIN posts
    /\ posts[resp.pk].author = resp.user
    /\ posts[resp.pk].is_published = FALSE
    /\ posts[resp.pk].category = NULL
    /\ posts[resp.pk].pub_date > now
    /\ resp.status = 200

\* C3: the home feed lists exactly the posts that pass the visibility rule,
\* and the feed of a category exactly those of them that are in the
\* category, each newest first.
C3_FeedExact ==
    /\ (Answered({"index"}) /\ resp.status = 200) =>
          /\ Range(resp.object_list) = {p \in DOMAIN posts : PublicNow(p)}
          /\ NewestFirst(resp.object_list)
    /\ (Answered({"category_posts"}) /\ resp.status = 200) =>
          /\ Range(resp.object_list) =
                {p \in DOMAIN posts : posts[p].category = resp.name /\ PublicNow(p)}
          /\ NewestFirst(resp.object_list)

\* C3 witness: a home feed of two posts, the newer one first.
C3_Witness ==
    /\ Answered({"index"})
    /\ Len(resp.object_list) = 2
    /\ posts[resp.object_list[1]].pub_date > posts[resp.object_list[2]].pub_date

\* C4: the profile feed of a user lists all of the user's posts when the
\* user requests it, and only those that pass the visibility rule when
\* anyone else does, newest first.
C4_ProfileFeed ==
    (Answered({"profile"}) /\ resp.status = 200) =>
        /\ Range(resp.object_list) =
              {p \in DOMAIN posts :
                  /\ posts[p].author = resp.name
                  /\ (resp.user = resp.name \/ PublicNow(p))}
        /\ NewestFirst(resp.object_list)

\* C7: the route of an unpublished category answers 404, and no feed (home,
\* category, profile seen by someone else) lists a post of an unpublished
\* category.
C7_CategoryGate ==
    /\ (/\ Answered({"category_posts"})
        /\ resp.name \in DOMAIN categories
        /\ ~categories[resp.name].is_published) => resp.status = 404
    /\ (\/ Answered({"index", "category_posts"})
        \/ Answered({"profile"}) /\ resp.user # resp.name) =>
          \A p \in Range(resp.object_list) :
              posts[p].category \in DOMAIN categories =>
                  categories[posts[p].category].is_published

\* A step that handles a request of one of the given views.
Handles(views) == resp = Idle /\ resp'.view \in views

\* C5: an edit or delete request on an existing post or comment made by
\* someone who is not its author ends in a redirect to the item's detail
\* view (of a comment: that of its post) and changes nothing in the store;
\* made by its author it succeeds, and a submitted edit is then carried by
\* the item, a submitted delete leaves the item absent.
C5_Ownership ==
    [][/\ (Handles({"edit_post", "delete_post"}) /\ resp'.pk \in DOMAIN posts) =>
            IF posts[resp'.pk].author # resp'.user
            THEN /\ resp'.status = 302
                 /\ resp'.location = RedirectTo("post_detail", resp'.pk, "")
                 /\ store' = store
            ELSE IF resp'.method = "GET" THEN resp'.status = 200
            ELSE /\ resp'.status = 302
                 /\ IF resp'.view = "edit_post"
                    THEN /\ resp'.pk \in DOMAIN posts'
                         /\ posts'[resp'.pk] =
                               PostRow(posts[resp'.pk].author,
                                       posts[resp'.pk].created_at, resp'.form)
                    ELSE resp'.pk \notin DOMAIN posts'
       /\ (Handles({"edit_comment", "delete_comment"})
           /\ resp'.pk \in DOMAIN comments) =>
            IF comments[resp'.pk].author # resp'.user
            THEN /\ resp'.status = 302
                 /\ resp'.location =
                       RedirectTo("post_detail", comments[resp'.pk].post, "")
                 /\ store' = store
            ELSE IF resp'.method = "GET" THEN resp'.status = 200
            ELSE IF resp'.view = "delete_comment"
            THEN resp'.status = 302 /\ resp'.pk \notin DOMAIN comments'
            ELSE IF CommentFormValid(resp'.form)
            THEN /\ resp'.status = 302
                 /\ resp'.pk \in DOMAIN comments'
                 /\ comments'[resp'.pk].text = resp'.form.text
            ELSE resp'.status = 200
      ]_vars

\* The posts the home feed would list now.
InFeed == post_list_request(DOMAIN posts)

\* C6: a published post of a published category is off the home feed at
\* every read before its pub_date and on it at every read from then on;
\* while nothing is written, a post on the feed stays on it.
C6_ReadAtTime ==
    Answered({"index"}) =>
        \A p \in DOMAIN posts :
            (/\ posts[p].is_published
             /\ posts[p].category \in DOMAIN categories
             /\ categories[posts[p].category].is_published)
            => (p \in Range(resp.object_list) <=> posts[p].pub_date <= now)

C6_TimeGating ==
    /\ []C6_ReadAtTime
    /\ [][store' = store => (now' >= now /\ InFeed \subseteq InFeed')]_vars

\* C6 witness: the home feed lists a post that was created before its
\* pub_date, with no write to it since.
C6_Witness ==
    /\ Answered({"index"})
    /\ \E p \in Range(resp.object_list) : posts[p].created_at < posts[p].pub_date

\* No post or comment refers to a row that is not in the store.
NoDanglingReference ==
    /\ \A p \in DOMAIN posts :
          /\ posts[p].author \in users
          /\ posts[p].category \in DOMAIN categories \cup {NULL}
          /\ posts[p].location \in locations \cup {NULL}
    /\ \A k \in DOMAIN comments :
          /\ comments[k].author \in users
          /\ comments[k].post \in DOMAIN posts

\* C8: deleting a category or location keeps every post and empties the
\* field of those that referred to it, with nothing else changed; deleting
\* a user removes exactly the user's posts and comments and the comments on
\* those posts; deleting a post removes exactly the post and its comments;
\* no post or comment ever refers to a deleted row.
C8_CascadeNullify ==
    /\ []NoDanglingReference
    /\ [][/\ categories' # categories =>
               /\ DOMAIN posts' = DOMAIN posts
               /\ \A p \in DOMAIN posts :
                     posts'[p] =
                        IF posts[p].category \in DOMAIN categories'
                        THEN posts[p] ELSE [posts[p] EXCEPT !.category = NULL]
               /\ comments' = comments
          /\ locations' # locations =>
               /\ DOMAIN posts' = DOMAIN posts
               /\ \A p \in DOMAIN posts :
                     posts'[p] =
                        IF posts[p].location \in locations'
                        THEN posts[p] ELSE [posts[p] EXCEPT !.location = NULL]
               /\ comments' = comments
          /\ users' # users =>
               /\ posts' = Restrict(posts,
                              {p \in DOMAIN posts : posts[p].author \in users'})
               /\ comments' = Restrict(comments,
                              {k \in DOMAIN comments :
                                  /\ comments[k].author \in users'
                                  /\ comments[k].post \in DOMAIN posts'})
          /\ (users' = users /\ DOMAIN posts' # DOMAIN posts /\ post_seq' = post_seq) =>
               /\ posts' = Restrict(posts, DOMAIN posts')
               /\ comments' = Restrict(comments,
                              {k \in DOMAIN comments :
                                  comments[k].post \in DOMAIN posts'})
      ]_vars

\* C8 witness: a location was deleted and a post that referred to it is
\* still there, with its category, and with a comment on it.
C8_Witness ==
    /\ Answered({"delete_location"})
    /\ \E p \in DOMAIN posts :
          /\ posts[p].location = NULL
          /\ posts[p].category # NULL
          /\ \E k \in DOMAIN comments : comments[k].post = p

\* C9: an edit or delete request that names a post or comment that is not
\* in the store answers 404 whoever asks, and changes nothing.
C9_MissingIsNotFound ==
    [][(\/ Handles({"edit_post", "delete_post"}) /\ resp'.pk \notin DOMAIN posts
        \/ Handles({"edit_comment", "delete_comment"})
              /\ resp'.pk \notin DOMAIN comments)
       => (resp'.status = 404 /\ store' = store)]_vars

\* C9 witness: a logged-out client asked to delete a post that was deleted
\* before, and got 404.
C9_Witness ==
    /\ Answered({"delete_post"})
    /\ resp.user = Anonymous
    /\ resp.pk <= post_seq
    /\ resp.status = 404

\* C10: every redirect that answers an edit or delete request on an existing
\* comment goes to the detail view of the comment's post, whatever post the
\* path names.
C10_RedirectToParent ==
    [][(/\ Handles({"edit_comment", "delete_comment"})
        /\ resp'.pk \in DOMAIN comments
        /\ resp'.status = 302)
       => resp'.location = RedirectTo("post_detail", comments[resp'.pk].post, "")]_vars

====
